---------------------------- MODULE Spec2Model ----------------------------
(***************************************************************************)
(* Model of the two Cloudflare Pages Functions of fizmix:                  *)
(*   src/functions/api/result.js  the endpoint with a selectable transform *)
(*   src/unnamed/part_000         the endpoint with the fixed transform    *)
(* Both fit y = b/x^2 + a by least squares, compute R^2, map it through a  *)
(* transform and answer with the transformed value only.                   *)
(*                                                                         *)
(* Numbers.  A JavaScript number is modelled as a record                   *)
(*     [k, n, d, e]   k = "fin": the value (n/d) * 10^e, n/d in lowest     *)
(*                    terms, d > 0;  k = "inf" | "ninf" | "nan" otherwise. *)
(* Arithmetic on finite values is exact (no rounding to 53 bits), with the *)
(* IEEE rules for Infinity and NaN.  The decimal exponent e lets the       *)
(* literals 1e-20, 1e-10, 1e10, 1e30 and 1e100 of the source be written    *)
(* with TLC's 32-bit integers.  Two values are compared with Less, NumEq   *)
(* and their kin: equal values may differ in how n and e share a power of  *)
(* ten.  The functions of Math are computed to 8 decimals.                 *)
(*                                                                         *)
(* Rounding.  fit is modelled a second time in binary64, the arithmetic    *)
(* the source runs on, with every operation rounded to 53 bits (SpecFit64).*)
(* There fit is a sequence of steps, one per group of statements, and the  *)
(* x values include repeated ones, where rounding decides what the         *)
(* determinant test sees.                                                  *)
(*                                                                         *)
(* Specifications.                                                         *)
(*   Spec            a request is received and handled by both endpoints   *)
(*   SpecFit         fit on exact data y = b0/x^2 + a0                     *)
(*   SpecFit64       fit in binary64, statement by statement               *)
(*   SpecTransforms  the table of transforms on pairs of R^2 values        *)
(***************************************************************************)
EXTENDS Integers, Sequences, FiniteSets, TLC

-----------------------------------------------------------------------------
(* Integer helpers *)

AbsInt(i) == IF i < 0 THEN -i ELSE i

RECURSIVE Gcd(_, _)
Gcd(a, b) == IF b = 0 THEN a ELSE Gcd(b, a % b)

RECURSIVE Pow10(_)
Pow10(k) == IF k = 0 THEN 1 ELSE 10 * Pow10(k - 1)

-----------------------------------------------------------------------------
(* Numbers *)

NaN  == [k |-> "nan",  n |-> 0, d |-> 1, e |-> 0]
Inf  == [k |-> "inf",  n |-> 0, d |-> 1, e |-> 0]
NInf == [k |-> "ninf", n |-> 0, d |-> 1, e |-> 0]

(* (n/d) * 10^e in lowest terms *)
MkFin(n, d, e) ==
  IF n = 0 THEN [k |-> "fin", n |-> 0, d |-> 1, e |-> 0]
  ELSE LET g == Gcd(AbsInt(n), AbsInt(d))
           s == IF d < 0 THEN -1 ELSE 1
       IN  [k |-> "fin", n |-> s * (n \div g), d |-> s * (d \div g), e |-> e]

Fin(n, d) == MkFin(n, d, 0)
Num(i) == MkFin(i, 1, 0)
(* the literal 1eK of the source *)
E10(K) == [k |-> "fin", n |-> 1, d |-> 1, e |-> K]

Zero == Num(0)
One  == Num(1)

IsFin(a) == a.k = "fin"
IsNaN(a) == a.k = "nan"
Sign(a) == CASE a.k = "inf"  -> 1
             [] a.k = "ninf" -> -1
             [] a.k = "nan"  -> 0
             [] OTHER -> IF a.n > 0 THEN 1 ELSE IF a.n < 0 THEN -1 ELSE 0

Neg(a) == CASE a.k = "inf"  -> NInf
            [] a.k = "ninf" -> Inf
            [] a.k = "nan"  -> NaN
            [] OTHER -> [a EXCEPT !.n = -a.n]

(* Math.abs *)
Abs(a) == IF Sign(a) < 0 THEN Neg(a) ELSE a

(* a finite value rewritten with the smaller decimal exponent f <= a.e *)
ScaleTo(a, f) == IF a.n = 0 THEN a ELSE MkFin(a.n * Pow10(a.e - f), a.d, f)

AddFin(a, b) ==
  LET f  == IF a.n = 0 THEN b.e ELSE IF b.n = 0 THEN a.e
            ELSE IF a.e < b.e THEN a.e ELSE b.e
      Over(a1, b1, l) == MkFin(a1.n * (l \div a1.d) + b1.n * (l \div b1.d), l, f)
      Sum(a1, b1) == Over(a1, b1, (a1.d \div Gcd(a1.d, b1.d)) * b1.d)
  IN  Sum(ScaleTo(a, f), ScaleTo(b, f))

MulFin(a, b) ==
  LET g1 == Gcd(AbsInt(a.n), b.d)
      g2 == Gcd(AbsInt(b.n), a.d)
  IN  IF a.n = 0 \/ b.n = 0 THEN Zero
      ELSE MkFin((a.n \div g1) * (b.n \div g2), (a.d \div g2) * (b.d \div g1), a.e + b.e)

(* a + b *)
Add(a, b) ==
  CASE IsNaN(a) \/ IsNaN(b) -> NaN
    [] IsFin(a) /\ IsFin(b) -> AddFin(a, b)
    [] IsFin(a) -> b
    [] IsFin(b) -> a
    [] OTHER -> IF a.k = b.k THEN a ELSE NaN

(* a - b *)
Sub(a, b) == Add(a, Neg(b))

(* a * b *)
Mul(a, b) ==
  CASE IsNaN(a) \/ IsNaN(b) -> NaN
    [] IsFin(a) /\ IsFin(b) -> MulFin(a, b)
    [] OTHER -> LET s == Sign(a) * Sign(b)
                IN  IF s = 0 THEN NaN ELSE IF s > 0 THEN Inf ELSE NInf

(* a / b *)
Div(a, b) ==
  CASE IsNaN(a) \/ IsNaN(b) -> NaN
    [] IsFin(a) /\ IsFin(b) ->
         IF b.n = 0
         THEN (IF a.n = 0 THEN NaN ELSE IF a.n > 0 THEN Inf ELSE NInf)
         ELSE MulFin(a, MkFin(b.d, b.n, -b.e))
    [] IsFin(a) -> Zero
    [] IsFin(b) -> IF Sign(a) * (IF Sign(b) < 0 THEN -1 ELSE 1) > 0 THEN Inf ELSE NInf
    [] OTHER -> NaN

(* -1, 0, 1 as n1/d1 is below, equal to or above n2/d2 (all four positive): *)
(* the integer parts decide, or else the reciprocals of the remainders      *)
RECURSIVE CmpRat(_, _, _, _)
CmpRat(n1, d1, n2, d2) ==
  LET q1 == n1 \div d1
      q2 == n2 \div d2
      r1 == n1 % d1
      r2 == n2 % d2
  IN  IF q1 # q2 THEN (IF q1 < q2 THEN -1 ELSE 1)
      ELSE IF r1 = 0 /\ r2 = 0 THEN 0
      ELSE IF r1 = 0 THEN -1
      ELSE IF r2 = 0 THEN 1
      ELSE CmpRat(d2, r2, d1, r1)

(* floor(log10(n/d)) for n, d > 0 *)
RECURSIVE Log10Floor(_, _)
Log10Floor(n, d) ==
  IF n >= d
  THEN (IF n \div 10 >= d THEN 1 + Log10Floor(n \div 10, d) ELSE 0)
  ELSE Log10Floor(n, (d + 9) \div 10) - 1

(* comparison of two positive finite values: the decimal magnitudes        *)
(* decide, or else the mantissas n/d / 10^L in [1, 10)                      *)
CmpPos(a, b) ==
  IF a.e = b.e THEN CmpRat(a.n, a.d, b.n, b.d)
  ELSE LET Top(v, l) == IF l < 0 THEN v.n * Pow10(-l) ELSE v.n
           Bot(v, l) == IF l < 0 THEN v.d ELSE v.d * Pow10(l)
           Magnitudes(la, lb) ==
             IF a.e + la # b.e + lb THEN (IF a.e + la < b.e + lb THEN -1 ELSE 1)
             ELSE CmpRat(Top(a, la), Bot(a, la), Top(b, lb), Bot(b, lb))
       IN  Magnitudes(Log10Floor(a.n, a.d), Log10Floor(b.n, b.d))

(* comparison of two values that are not NaN *)
Cmp(a, b) ==
  CASE a.k = b.k /\ ~IsFin(a) -> 0
    [] a.k = "inf" \/ b.k = "ninf" -> 1
    [] a.k = "ninf" \/ b.k = "inf" -> -1
    [] Sign(a) # Sign(b) -> (IF Sign(a) < Sign(b) THEN -1 ELSE 1)
    [] Sign(a) = 0 -> 0
    [] OTHER -> CmpPos(IF Sign(a) > 0 THEN a ELSE Neg(b),
                       IF Sign(a) > 0 THEN b ELSE Neg(a))

(* a < b, a > b, a >= b, a == b of JavaScript: false when either is NaN *)
Less(a, b)    == ~IsNaN(a) /\ ~IsNaN(b) /\ Cmp(a, b) < 0
Greater(a, b) == Less(b, a)
GreaterEq(a, b) == ~IsNaN(a) /\ ~IsNaN(b) /\ Cmp(a, b) >= 0
NumEq(a, b)   == ~IsNaN(a) /\ ~IsNaN(b) /\ Cmp(a, b) = 0

(* Math.max(a, b), Math.min(a, b) *)
MathMax(a, b) == IF IsNaN(a) \/ IsNaN(b) THEN NaN ELSE IF Cmp(a, b) >= 0 THEN a ELSE b
MathMin(a, b) == IF IsNaN(a) \/ IsNaN(b) THEN NaN ELSE IF Cmp(a, b) <= 0 THEN a ELSE b

-----------------------------------------------------------------------------
(* The Math library.  Math.log, Math.exp, Math.sqrt, Math.tan, Math.atan,  *)
(* Math.sinh and Math.pow are computed in fixed point with 8 decimals      *)
(* (an integer f stands for f / 10^8), two more than the 6 decimals of     *)
(* toFixed(6); a result is handed back as the number f / 10^8.             *)

F8 == Pow10(8)

(* <<floor(10 r / d), 10 r mod d>> for 0 <= r < d, without forming 10 r    *)
(* when that would leave 32 bits                                           *)
RECURSIVE TimesTenMod(_, _, _, _, _)
TimesTenMod(r, d, q, acc, todo) ==
  IF todo = 0 THEN <<q, acc>>
  ELSE IF acc >= d - r THEN TimesTenMod(r, d, q + 1, acc - (d - r), todo - 1)
  ELSE TimesTenMod(r, d, q, acc + r, todo - 1)

(* <<floor(n 10^p / d), remainder>> for n >= 0, d > 0, p >= 0: long division *)
RECURSIVE LongDiv(_, _, _)
LongDiv(n, d, p) ==
  IF p = 0 THEN <<n \div d, n % d>>
  ELSE LET h == LongDiv(n, d, p - 1)
           t == IF h[2] < 200000000 THEN <<(10 * h[2]) \div d, (10 * h[2]) % d>>
                ELSE TimesTenMod(h[2], d, 0, 0, 10)
       IN  <<10 * h[1] + t[1], t[2]>>

(* floor(|a| 10^p) for a finite a and p >= 0 *)
FloorScaled(a, p) ==
  LET q == p + a.e
  IN  IF q >= 0 THEN LongDiv(AbsInt(a.n), a.d, q)[1]
      ELSE IF q < -9 THEN 0
      ELSE (AbsInt(a.n) \div a.d) \div Pow10(-q)

(* a finite a >= 0 in fixed point *)
ToF8(a) == FloorScaled(a, 8)

(* fixed point back to a number *)
FromF8(f) == Fin(f, F8)

(* floor(a b / 10^8) for fixed-point a, b >= 0 *)
F8Mul(a, b) ==
  LET ah == a \div 10000
      al == a % 10000
      bh == b \div 10000
      bl == b % 10000
      t  == ah * bl + al * bh
  IN  ah * bh + t \div 10000 + ((t % 10000) * 10000 + al * bl) \div F8

(* floor(a 10^8 / b) for fixed-point a >= 0, b > 0 *)
F8Div(a, b) == LongDiv(a, b, 8)[1]

(* the constants of the library, 8 decimals *)
F8Ln2   == 69314718
F8Ln10  == 230258509
F8Pi    == 314159265

(* sum of term, term x / k, term x^2 / (k (k+1)), ... : the exponential series *)
RECURSIVE ExpSeries(_, _, _)
ExpSeries(x, term, k) ==
  IF term = 0 THEN 0 ELSE term + ExpSeries(x, F8Mul(term, x) \div k, k + 1)

(* the product of two mantissa-exponent pairs <<m, ex>>, m in [10^8, 10^9): *)
(* a product m in [10^7, 10^9) is brought back into [10^8, 10^9)            *)
MantMul(a, b) ==
  LET Renorm(m, ex) == IF m < F8 THEN <<10 * m, ex - 1>> ELSE <<m, ex>>
  IN  Renorm(F8Mul(a[1], b[1] \div 10), a[2] + b[2] + 1)

(* base^i for i >= 0 by repeated squaring *)
RECURSIVE MantPower(_, _)
MantPower(base, i) ==
  IF i = 0 THEN <<F8, 0>>
  ELSE LET h  == MantPower(base, i \div 2)
           sq == MantMul(h, h)
       IN  IF i % 2 = 1 THEN MantMul(sq, base) ELSE sq

(* <<m, ex>> times e^i, from e = 2.71828183 and 1/e = 3.67879441 * 10^-1 *)
TimesEPow(mx, i) ==
  MantMul(mx, IF i >= 0 THEN MantPower(<<271828183, 0>>, i)
              ELSE MantPower(<<367879441, -1>>, -i))

(* Math.exp: e^a = e^floor(a) * e^frac(a); Infinity above ln(MAX_VALUE) *)
MathExp(a) ==
  CASE IsNaN(a) -> NaN
    [] a.k = "inf" -> Inf
    [] a.k = "ninf" -> Zero
    [] Greater(a, Fin(709782712, 1000000)) -> Inf
    [] Less(a, Num(-746)) -> Zero
    [] OTHER ->
         LET Result(mx) == MkFin(mx[1], F8, mx[2])
             Split(a0, i) ==
               Result(TimesEPow(<<ExpSeries(ToF8(Sub(a0, Num(i))), F8, 1), 0>>, i))
             Floor(a0) == IF a0.n >= 0 THEN a0.n \div a0.d
                          ELSE -((-a0.n + a0.d - 1) \div a0.d)
             Whole(a0) ==
               Split(a0, IF a0.e = 0 THEN Floor(a0) ELSE IF a0.n < 0 THEN -1 ELSE 0)
         IN  Whole(ScaleTo(a, IF a.e < 0 THEN a.e ELSE 0))

(* 2 (z + z^3/3 + z^5/5 + ...) = ln((1+z)/(1-z)), fixed point *)
RECURSIVE AtanhSeries(_, _, _)
AtanhSeries(zz, pw, k) ==
  IF pw = 0 THEN 0 ELSE pw \div k + AtanhSeries(zz, F8Mul(pw, zz), k + 2)

(* w in [1, 10), fixed point, halved until below 2: <<w', halvings>> *)
RECURSIVE HalveBelow2(_, _)
HalveBelow2(w, c) == IF w >= 2 * F8 THEN HalveBelow2(w \div 2, c + 1) ELSE <<w, c>>

(* Math.log: ln(v) = (e + L) ln 10 + c ln 2 + ln(w'),                      *)
(* v = (n/d) 10^e = w 10^(e+L), 1 <= w < 10, w = w' 2^c, 1 <= w' < 2        *)
MathLog(v) ==
  CASE IsNaN(v) \/ Sign(v) < 0 -> NaN
    [] v.k = "inf" -> Inf
    [] Sign(v) = 0 -> NInf
    [] OTHER ->
         LET Series(h, z) == h[2] * F8Ln2 + 2 * AtanhSeries(F8Mul(z, z), z, 1)
             Ln(h) == Series(h, F8Div(h[1] - F8, h[1] + F8))
             W(L) == IF L <= 8 THEN LongDiv(v.n, v.d, 8 - L)[1]
                     ELSE (v.n \div v.d) \div Pow10(L - 8)
             Sum(L) == Add(Mul(Num(v.e + L), FromF8(F8Ln10)),
                           FromF8(Ln(HalveBelow2(W(L), 0))))
         IN  Sum(Log10Floor(v.n, v.d))

(* Newton's  s <- (s + v/s) / 2  from s, fixed point, until it settles *)
RECURSIVE Newton(_, _, _)
Newton(v, s, todo) ==
  LET t == (s + F8Div(v, s)) \div 2
  IN  IF todo = 0 \/ t = s THEN s ELSE Newton(v, t, todo - 1)

F8Sqrt(v) == IF v = 0 THEN 0 ELSE Newton(v, F8, 40)

(* Math.sqrt, for arguments below 21; an even decimal exponent is halved *)
MathSqrt(v) ==
  CASE IsNaN(v) \/ Sign(v) < 0 -> NaN
    [] v.k = "inf" -> Inf
    [] Sign(v) = 0 -> Zero
    [] v.e % 2 = 0 -> LET s == F8Sqrt(LongDiv(v.n, v.d, 8)[1])
                      IN  MkFin(s, F8, v.e \div 2)
    [] OTHER -> FromF8(F8Sqrt(ToF8(v)))

(* x - x^3/3 + x^5/5 - ... *)
RECURSIVE AtanSeries(_, _, _)
AtanSeries(xx, pw, k) ==
  IF pw = 0 THEN 0 ELSE pw \div k - AtanSeries(xx, F8Mul(pw, xx), k + 2)

(* x / (1 + sqrt(1 + x^2)): atan(x) = 2 atan of it *)
AtanHalve(x) == F8Div(x, F8 + F8Sqrt(F8 + F8Mul(x, x)))

(* Math.atan for 0 <= x < 10: two halvings, then the series *)
MathAtan(x) ==
  CASE IsNaN(x) -> NaN
    [] OTHER -> LET Series(q) == FromF8(4 * AtanSeries(F8Mul(q, q), q, 1))
                IN  Series(AtanHalve(AtanHalve(ToF8(x))))

(* term - term xx / (k (k+1)) + ... : the sine series from term = x, k = 2, *)
(* the cosine series from term = 1, k = 1                                   *)
RECURSIVE SinCosSeries(_, _, _)
SinCosSeries(xx, term, k) ==
  IF term = 0 THEN 0
  ELSE term - SinCosSeries(xx, F8Mul(term, xx) \div (k * (k + 1)), k + 2)

(* Math.tan for a fixed-point 0 <= x < pi/2: sin / cos *)
F8Tan(x) == Fin(SinCosSeries(F8Mul(x, x), x, 2), SinCosSeries(F8Mul(x, x), F8, 1))

(* x + x^3/3! + x^5/5! + ... *)
RECURSIVE SinhSeries(_, _, _)
SinhSeries(xx, term, k) ==
  IF term = 0 THEN 0
  ELSE term + SinhSeries(xx, F8Mul(term, xx) \div (k * (k + 1)), k + 2)

(* Math.sinh for 0 <= x < 3 *)
MathSinh(x) ==
  CASE IsNaN(x) -> NaN
    [] OTHER -> LET Series(f) == FromF8(SinhSeries(F8Mul(f, f), f, 2))
                IN  Series(ToF8(x))

(* n^k fits 32 bits *)
RECURSIVE PowFits(_, _)
PowFits(n, k) == k = 0 \/ (PowFits(n, k - 1) /\ (n = 0 \/ n ^ (k - 1) <= 2147483647 \div n))

(* Math.pow(v, k) for a finite v >= 0 and k = 2, 3: exact when numerator and *)
(* denominator fit 32 bits, else to 8 significant digits                     *)
MathPow(v, k) ==
  CASE IsNaN(v) -> NaN
    [] v.n = 0 -> Zero
    [] PowFits(v.n, k) /\ PowFits(v.d, k) -> MkFin(v.n ^ k, v.d ^ k, v.e * k)
    [] OTHER -> LET L  == Log10Floor(v.n, v.d)
                    m  == IF L <= 8 THEN LongDiv(v.n, v.d, 8 - L)[1]
                          ELSE (v.n \div v.d) \div Pow10(L - 8)
                    mx == MantPower(<<m, v.e + L>>, k)
                IN  MkFin(mx[1], F8, mx[2])

-----------------------------------------------------------------------------
(* fit of result.js *)

Null == [k |-> "null", n |-> 0, d |-> 1, e |-> 0]

(* a faulty loop that starts at the second element *)
RECURSIVE SumFromSecond(_, _)
SumFromSecond(f, m) == IF m <= 1 THEN Zero ELSE Add(SumFromSecond(f, m - 1), f[m])

(* the running sum  s += f[i]  for i = 1 .. m, from 0 *)
RECURSIVE SumTo(_, _)
SumTo(f, m) == IF m = 0 THEN Zero ELSE Add(SumTo(f, m - 1), f[m])

fit(x, y) ==
  LET n     == Len(x)
      u     == [i \in 1..n |-> Div(One, Mul(x[i], x[i]))]
      sumU  == SumTo(u, n)
      sumU2 == SumTo([i \in 1..n |-> Mul(u[i], u[i])], n)
      sumY  == SumTo(y, n)
      sumUY == SumTo([i \in 1..n |-> Mul(u[i], y[i])], n)
      det   == Sub(Mul(Num(n), sumU2), Mul(sumU, sumU))
      a     == Div(Sub(Mul(sumY, sumU2), Mul(sumU, sumUY)), det)
      b     == Div(Sub(Mul(Num(n), sumUY), Mul(sumU, sumY)), det)
      yPred == [i \in 1..n |-> Add(Div(b, Mul(x[i], x[i])), a)]
      yMean == Div(sumY, Num(n))
      ssRes == SumTo([i \in 1..n |-> LET r == Sub(y[i], yPred[i]) IN Mul(r, r)], n)
      ssTot == SumTo([i \in 1..n |-> LET r == Sub(y[i], yMean) IN Mul(r, r)], n)
  IN  IF Less(Abs(det), E10(-20)) THEN Null
      ELSE IF Greater(ssTot, Zero) THEN Sub(One, Div(ssRes, ssTot)) ELSE Zero

-----------------------------------------------------------------------------
(* fit in the arithmetic of the code.  A JavaScript number is an IEEE 754   *)
(* binary64: s * m * 2^q with m below 2^53, every operation rounded to the  *)
(* nearest, ties to even.  m is a natural number of any size, kept as its   *)
(* limbs in base 2^15, the low limb first, without a leading zero limb.     *)

Base == 2 ^ 15

Limb(a, i) == IF i <= Len(a) THEN a[i] ELSE 0

RECURSIVE BTrim(_)
BTrim(a) ==
  IF a # <<>> /\ a[Len(a)] = 0 THEN BTrim(SubSeq(a, 1, Len(a) - 1)) ELSE a

RECURSIVE BAddFrom(_, _, _, _)
BAddFrom(a, b, i, c) ==
  IF i > Len(a) /\ i > Len(b) THEN (IF c = 0 THEN <<>> ELSE <<c>>)
  ELSE LET t == Limb(a, i) + Limb(b, i) + c
       IN  <<t % Base>> \o BAddFrom(a, b, i + 1, t \div Base)

BAdd(a, b) == BAddFrom(a, b, 1, 0)

(* a - b for a >= b *)
RECURSIVE BSubFrom(_, _, _, _)
BSubFrom(a, b, i, c) ==
  IF i > Len(a) THEN <<>>
  ELSE LET t == a[i] - Limb(b, i) - c
       IN  <<(t + Base) % Base>> \o BSubFrom(a, b, i + 1, IF t < 0 THEN 1 ELSE 0)

BSub(a, b) == BTrim(BSubFrom(a, b, 1, 0))

RECURSIVE BCmpFrom(_, _, _)
BCmpFrom(a, b, i) ==
  IF i = 0 THEN 0
  ELSE IF a[i] # b[i] THEN (IF a[i] < b[i] THEN -1 ELSE 1)
  ELSE BCmpFrom(a, b, i - 1)

BCmp(a, b) ==
  IF Len(a) # Len(b) THEN (IF Len(a) < Len(b) THEN -1 ELSE 1)
  ELSE BCmpFrom(a, b, Len(a))

(* a * k for 0 <= k < Base *)
RECURSIVE BTimesFrom(_, _, _, _)
BTimesFrom(a, k, i, c) ==
  IF i > Len(a) THEN (IF c = 0 THEN <<>> ELSE <<c>>)
  ELSE LET t == a[i] * k + c
       IN  <<t % Base>> \o BTimesFrom(a, k, i + 1, t \div Base)

BTimes(a, k) == IF k = 0 THEN <<>> ELSE BTimesFrom(a, k, 1, 0)

RECURSIVE BMulFrom(_, _, _)
BMulFrom(a, b, j) ==
  IF j > Len(b) THEN <<>>
  ELSE LET rest == BMulFrom(a, b, j + 1)
       IN  BAdd(BTimes(a, b[j]), IF rest = <<>> THEN <<>> ELSE <<0>> \o rest)

BMul(a, b) == IF a = <<>> THEN <<>> ELSE BMulFrom(a, b, 1)

(* a * 2^k *)
BShl(a, k) ==
  IF a = <<>> THEN <<>>
  ELSE [i \in 1..(k \div 15) |-> 0] \o BTimes(a, 2 ^ (k % 15))

(* floor(a / p) for 0 < p < Base, from the high limb down *)
RECURSIVE BOverFrom(_, _, _, _)
BOverFrom(a, p, i, r) ==
  IF i = 0 THEN <<>>
  ELSE LET cur == r * Base + a[i]
       IN  BOverFrom(a, p, i - 1, cur % p) \o <<cur \div p>>

(* floor(a / 2^k) *)
BShr(a, k) ==
  LET w  == k \div 15
      hi == IF w >= Len(a) THEN <<>> ELSE SubSeq(a, w + 1, Len(a))
  IN  BTrim(BOverFrom(hi, 2 ^ (k % 15), Len(hi), 0))

BitLength(v) == CHOOSE k \in 0..15 : v < 2 ^ k /\ (k = 0 \/ v >= 2 ^ (k - 1))

BBitLen(a) == IF a = <<>> THEN 0 ELSE 15 * (Len(a) - 1) + BitLength(a[Len(a)])


(* floor(r / d) for r < d * Base, where the high limb of d is at least     *)
(* Base / 2: the quotient of the two high limbs of r by the high limb of d *)
(* is the digit or exceeds it by at most 2                                  *)
QuotDigit(r, d) ==
  LET top  == Limb(r, Len(d) + 1) * Base + Limb(r, Len(d))
      est  == top \div d[Len(d)]
      qhat == IF est > Base - 1 THEN Base - 1 ELSE est
      Fits(k) == BCmp(BTimes(d, k), r) <= 0
  IN  IF qhat = 0 \/ Fits(qhat) THEN qhat
      ELSE IF Fits(qhat - 1) THEN qhat - 1
      ELSE qhat - 2

(* <<quotient, remainder>> of the limbs i .. Len(n) of n by such a d *)
RECURSIVE BDivModFrom(_, _, _)
BDivModFrom(n, d, i) ==
  IF i > Len(n) THEN <<<<>>, <<>>>>
  ELSE LET up == BDivModFrom(n, d, i + 1)
           r  == BTrim(<<n[i]>> \o up[2])
           k  == QuotDigit(r, d)
       IN  <<BTrim(<<k>> \o up[1]), BSub(r, BTimes(d, k))>>

(* <<floor(n / d), n mod d>> for d > 0: both are first scaled by the power *)
(* of 2 that fills the high limb of d                                       *)
BDivMod(n, d) ==
  LET sh == 15 - BitLength(d[Len(d)])
      qr == BDivModFrom(BShl(n, sh), BShl(d, sh), 1)
  IN  <<qr[1], BShr(qr[2], sh)>>

DZero(s) == [k |-> "fin", s |-> s, m |-> <<>>, q |-> 0]
DInf(s)  == [k |-> "inf", s |-> s, m |-> <<>>, q |-> 0]
DNaN     == [k |-> "nan", s |-> 1, m |-> <<>>, q |-> 0]

(* the one form of a double: 53 bits, or fewer at the exponent -1074; m  *)
(* is below 2^53 or, after rounding up, 2^53                             *)
DPack(s, m, q) ==
  LET room == 53 - BBitLen(m)
      sh   == IF room < q + 1074 THEN room ELSE q + 1074
  IN  IF room < 0 THEN [k |-> "fin", s |-> s, m |-> BShr(m, -room), q |-> q - room]
      ELSE [k |-> "fin", s |-> s, m |-> BShl(m, sh), q |-> q - sh]

(* the double nearest s * m * 2^q, a tie to the even one *)
DRound(s, m, q) ==
  LET L  == BBitLen(m)
      sh == IF L - 53 > -1074 - q THEN L - 53 ELSE -1074 - q
  IN  IF m = <<>> THEN DZero(s)
      ELSE IF sh <= 0 THEN (IF q + L - 1 > 1023 THEN DInf(s) ELSE DPack(s, m, q))
      ELSE LET t   == BShr(m, sh)
               rem == BSub(m, BShl(t, sh))
               c   == BCmp(BShl(rem, 1), BShl(<<1>>, sh))
               up  == c > 0 \/ (c = 0 /\ t # <<>> /\ t[1] % 2 = 1)
               t1  == IF up THEN BAdd(t, <<1>>) ELSE t
           IN  IF t1 = <<>> THEN DZero(s)
               ELSE IF q + sh + BBitLen(t1) - 1 > 1023 THEN DInf(s)
               ELSE DPack(s, t1, q + sh)

(* an integer below 2^31 in magnitude *)
DNum(i) ==
  LET v == AbsInt(i)
  IN  DRound(IF i < 0 THEN -1 ELSE 1,
             BTrim(<<v % Base, (v \div Base) % Base, v \div (Base * Base)>>), 0)

DTop(a) == a.q + BBitLen(a.m) - 1

(* a + b for finite a, b other than 0; an operand more than 64 binary      *)
(* places below the other only decides the rounding, as 2^-60 of it does   *)
DAddFin(a, b) ==
  LET Tiny(v, w) == IF DTop(w) - DTop(v) > 64
                    THEN [v EXCEPT !.m = <<1>>, !.q = DTop(w) - 60] ELSE v
      a1 == Tiny(a, b)
      b1 == Tiny(b, a)
      qm == IF a1.q < b1.q THEN a1.q ELSE b1.q
      ma == BShl(a1.m, a1.q - qm)
      mb == BShl(b1.m, b1.q - qm)
      c  == BCmp(ma, mb)
  IN  IF a.s = b.s THEN DRound(a.s, BAdd(ma, mb), qm)
      ELSE IF c = 0 THEN DZero(1)
      ELSE IF c > 0 THEN DRound(a.s, BSub(ma, mb), qm)
      ELSE DRound(b.s, BSub(mb, ma), qm)

DAdd(a, b) ==
  CASE a.k = "nan" \/ b.k = "nan" -> DNaN
    [] a.k = "inf" /\ b.k = "inf" -> (IF a.s = b.s THEN a ELSE DNaN)
    [] a.k = "inf" -> a
    [] b.k = "inf" -> b
    [] a.m = <<>> /\ b.m = <<>> -> DZero(IF a.s = b.s THEN a.s ELSE 1)
    [] a.m = <<>> -> b
    [] b.m = <<>> -> a
    [] OTHER -> DAddFin(a, b)

DSub(a, b) == DAdd(a, [b EXCEPT !.s = IF b.k = "nan" THEN 1 ELSE -b.s])

DMul(a, b) ==
  CASE a.k = "nan" \/ b.k = "nan" -> DNaN
    [] a.k = "inf" \/ b.k = "inf" ->
         (IF (a.k = "fin" /\ a.m = <<>>) \/ (b.k = "fin" /\ b.m = <<>>)
          THEN DNaN ELSE DInf(a.s * b.s))
    [] OTHER -> DRound(a.s * b.s, BMul(a.m, b.m), a.q + b.q)

DDiv(a, b) ==
  CASE a.k = "nan" \/ b.k = "nan" -> DNaN
    [] a.k = "inf" -> (IF b.k = "inf" THEN DNaN ELSE DInf(a.s * b.s))
    [] b.k = "inf" -> DZero(a.s * b.s)
    [] b.m = <<>> -> (IF a.m = <<>> THEN DNaN ELSE DInf(a.s * b.s))
    [] a.m = <<>> -> DZero(a.s * b.s)
    [] OTHER ->
         LET gap == 56 + BBitLen(b.m) - BBitLen(a.m)
             k   == IF gap > 0 THEN gap ELSE 0
             qr  == BDivMod(BShl(a.m, k), b.m)
             m   == BAdd(BShl(qr[1], 1), IF qr[2] = <<>> THEN <<>> ELSE <<1>>)
         IN  DRound(a.s * b.s, m, a.q - b.q - k - 1)

(* a < b, a > b: false when either is NaN *)
DLess(a, b) ==
  LET d == DSub(a, b)
  IN  d.k # "nan" /\ d.s < 0 /\ (d.k = "inf" \/ d.m # <<>>)

(* 1e-20: 10^20 is a double, and the literal is the double nearest 1/10^20 *)
D1em20 ==
  LET ten10 == DMul(DNum(100000), DNum(100000))
  IN  DDiv(DNum(1), DMul(ten10, ten10))

RECURSIVE DSumTo(_, _)
DSumTo(f, m) == IF m = 0 THEN DZero(1) ELSE DAdd(DSumTo(f, m - 1), f[m])

-----------------------------------------------------------------------------
(* TRANSFORMS of result.js.  The keys are written in ASCII: R^2 for R        *)
(* squared, * for the star, sqrt, pi, "." for the middle dot, ^-3 for the    *)
(* superscript and x for the multiplication sign.                            *)

C999  == Fin(999, 1000)
C9999 == Fin(9999, 10000)

(* Math.max(0, Math.min(0.999, r2)) and Math.max(0, r2) *)
Clamp999(r2) == MathMax(Zero, MathMin(C999, r2))
Clamp0(r2)   == MathMax(Zero, r2)

(* Math.PI * c, in fixed point *)
MulPi(c) == IF IsNaN(c) THEN NaN ELSE FromF8(F8Mul(F8Pi, ToF8(c)))
(* Math.tan *)
MathTan(x) == IF IsNaN(x) THEN NaN ELSE F8Tan(ToF8(x))
(* v || 0 *)
OrZero(v) == IF IsNaN(v) \/ Sign(v) = 0 THEN Zero ELSE v

TransformNames ==
  { "1/(1-R^2) *", "exp(1/(1-R^2)) *", "-log(1-R^2) *", "1/sqrt(1-R^2) *",
    "tan(pi.R^2/2) *", "exp(10.(R^2-1)) *", "(1-R^2)^-3 *", "log(1 + R^2)",
    "exp(R^2)", "sqrt(1 + R^2)", "R^2^2", "arctan(R^2)x2/pi", "R^2/(1+R^2)",
    "sinh(R^2)", "exp(-R^2)" }

TRANSFORMS(key, r2) ==
  CASE key = "1/(1-R^2) *" ->
         IF GreaterEq(r2, C999) THEN E10(10) ELSE Div(One, Sub(One, Clamp999(r2)))
    [] key = "exp(1/(1-R^2)) *" ->
         IF GreaterEq(r2, C999) THEN E10(100)
         ELSE MathExp(Div(One, Sub(One, Clamp999(r2))))
    [] key = "-log(1-R^2) *" ->
         Neg(MathLog(MathMax(E10(-10), Sub(One, MathMax(Zero, MathMin(C9999, r2))))))
    [] key = "1/sqrt(1-R^2) *" ->
         IF GreaterEq(r2, C999) THEN E10(10)
         ELSE Div(One, MathSqrt(MathMax(E10(-10), Sub(One, Clamp999(r2)))))
    [] key = "tan(pi.R^2/2) *" ->
         MathTan(Div(MulPi(Clamp999(r2)), Num(2)))
    [] key = "exp(10.(R^2-1)) *" ->
         MathExp(Mul(Num(10), Sub(Clamp0(r2), One)))
    [] key = "(1-R^2)^-3 *" ->
         IF GreaterEq(r2, C999) THEN E10(30)
         ELSE Div(One, MathPow(MathMax(E10(-10), Sub(One, Clamp999(r2))), 3))
    [] key = "log(1 + R^2)" -> MathLog(Add(One, Clamp0(r2)))
    [] key = "exp(R^2)" -> MathExp(MathMax(Num(-10), r2))
    [] key = "sqrt(1 + R^2)" -> MathSqrt(Add(One, Clamp0(r2)))
    [] key = "R^2^2" -> MathPow(Clamp0(r2), 2)
    [] key = "arctan(R^2)x2/pi" ->
         Div(Mul(MathAtan(Clamp0(r2)), Num(2)), FromF8(F8Pi))
    [] key = "R^2/(1+R^2)" -> OrZero(Div(Clamp0(r2), Add(One, Clamp0(r2))))
    [] key = "sinh(R^2)" -> MathSinh(Clamp0(r2))
    [] key = "exp(-R^2)" -> MathExp(Neg(Clamp0(r2)))

(* faulty variants of transform: without the upper clamp, and with the    *)
(* 0.999 clamp of the other table entries                                  *)
transform_unclamped(r2) ==
  Neg(MathLog(MathMax(E10(-10), Sub(One, MathMax(Zero, r2)))))

transform_999(r2) ==
  Neg(MathLog(MathMax(E10(-10), Sub(One, MathMax(Zero, MathMin(C999, r2))))))

(* transform of part_000 *)
transform(r2) ==
  Neg(MathLog(MathMax(E10(-10), Sub(One, MathMax(Zero, MathMin(C9999, r2))))))

-----------------------------------------------------------------------------
(* JavaScript values.  A string that is read character by character (a row *)
(* or an entry of a row) is a sequence of one-character strings.           *)

Undefined  == [t |-> "undefined"]
JNull      == [t |-> "null"]
JNum(v)    == [t |-> "number", v |-> v]
JStr(s)    == [t |-> "string", s |-> s]
JArr(a)    == [t |-> "array", a |-> a]

Digits == <<"0", "1", "2", "3", "4", "5", "6", "7", "8", "9">>

StrInfinity  == <<"I", "n", "f", "i", "n", "i", "t", "y">>

(* the decimal digits of a natural number *)
RECURSIVE NatToString(_)
NatToString(i) ==
  IF i < 10 THEN <<Digits[i + 1]>> ELSE NatToString(i \div 10) \o <<Digits[(i % 10) + 1]>>

(* the digits after the point of r/d, 0 <= r < d, to the last non-zero one *)
RECURSIVE FracToString(_, _, _)
FracToString(r, d, todo) ==
  IF r = 0 \/ todo = 0 THEN <<>>
  ELSE <<Digits[((10 * r) \div d) + 1]>> \o FracToString((10 * r) % d, d, todo - 1)

(* Number::toString of a number whose decimal expansion ends (as the JSON  *)
(* literals of the model do) and needs no exponent                          *)
NumberToString(v) ==
  CASE v.k = "nan"  -> <<"N", "a", "N">>
    [] v.k = "inf"  -> StrInfinity
    [] v.k = "ninf" -> <<"-">> \o StrInfinity
    [] OTHER ->
         LET Point(f) == IF f = <<>> THEN <<>> ELSE <<".">> \o f
             Text(a, n, d) ==
               (IF a.n < 0 THEN <<"-">> ELSE <<>>) \o NatToString(n \div d)
               \o Point(FracToString(n % d, d, 17))
             Scaled(a) == Text(a, AbsInt(a.n), a.d * Pow10(-a.e))
         IN  Scaled(ScaleTo(v, IF v.e < 0 THEN v.e ELSE 0))

(* a.join(",") of the strings in a *)
RECURSIVE Join(_)
Join(strs) ==
  IF strs = <<>> THEN <<>>
  ELSE IF Len(strs) = 1 THEN strs[1]
  ELSE strs[1] \o <<",">> \o Join(Tail(strs))

(* ToString of JavaScript *)
RECURSIVE ToStr(_)
ToStr(v) ==
  CASE v.t = "undefined" -> <<"u", "n", "d", "e", "f", "i", "n", "e", "d">>
    [] v.t = "null"      -> <<"n", "u", "l", "l">>
    [] v.t = "boolean"   -> IF v.b THEN <<"t", "r", "u", "e">> ELSE <<"f", "a", "l", "s", "e">>
    [] v.t = "number"    -> NumberToString(v.v)
    [] v.t = "string"    -> v.s
    [] v.t = "array"     ->
         Join([i \in 1..Len(v.a) |->
                 IF v.a[i].t \in {"undefined", "null"} THEN <<>> ELSE ToStr(v.a[i])])
    [] OTHER             ->
         <<"[", "o", "b", "j", "e", "c", "t", " ", "O", "b", "j", "e", "c", "t", "]">>

(* the index after the digits of s that start at i *)
RECURSIVE SkipDigits(_, _)
SkipDigits(s, i) == IF i <= Len(s) /\ (\E d \in 1..10 : Digits[d] = s[i]) THEN SkipDigits(s, i + 1) ELSE i

(* the index after the white space of s that starts at i *)
RECURSIVE SkipSpace(_, _)
SkipSpace(s, i) == IF i <= Len(s) /\ s[i] = " " THEN SkipSpace(s, i + 1) ELSE i

(* the natural number written by the digits s[i .. j-1]; 0 when there are none *)
RECURSIVE DigitsValue(_, _, _)
DigitsValue(s, i, j) ==
  IF i >= j THEN 0 ELSE 10 * DigitsValue(s, i, j - 1) + (CHOOSE d \in 1..10 : Digits[d] = s[j - 1]) - 1

HasPrefixAt(s, i, p) ==
  i + Len(p) - 1 <= Len(s) /\ \A j \in 1..Len(p) : s[i + j - 1] = p[j]

(* parseFloat of a string: white space, a sign, then Infinity or the longest *)
(* prefix that is a decimal literal (digits, a point, digits, an exponent);  *)
(* NaN when there is none; Infinity above Number.MAX_VALUE = 1.7976931e308    *)
ParseFloatString(s) ==
  LET At(i, chars) == i <= Len(s) /\ s[i] \in chars
      Capped(v) == IF Greater(v, MkFin(17976931, 10000000, 308)) THEN Inf ELSE v
      (* the literal between i1 and i5: digits to i2, a fraction to i3, an   *)
      (* exponent whose digits are from i4 to i5                             *)
      Read(neg, i1, i2, i3, i4, i5) ==
        LET dot  == At(i2, {"."})
            isE  == At(i3, {"e", "E"})
            nFrc == IF dot THEN i3 - (i2 + 1) ELSE 0
            ex   == IF isE /\ i5 > i4
                    THEN (IF At(i3 + 1, {"-"}) THEN -1 ELSE 1) * DigitsValue(s, i4, i5)
                    ELSE 0
            mant == DigitsValue(s, i1, i2) * Pow10(nFrc)
                    + (IF dot THEN DigitsValue(s, i2 + 1, i3) ELSE 0)
            Signed(w) == IF neg THEN Neg(w) ELSE w
        IN  IF HasPrefixAt(s, i1, StrInfinity) THEN (IF neg THEN NInf ELSE Inf)
            ELSE IF (i2 - i1) + nFrc = 0 THEN NaN
            ELSE Signed(Capped(MkFin(mant, Pow10(nFrc), ex)))
      AfterE(neg, i1, i2, i3, i4) ==
        Read(neg, i1, i2, i3, i4, IF At(i3, {"e", "E"}) THEN SkipDigits(s, i4) ELSE i4)
      AfterFraction(neg, i1, i2, i3) ==
        AfterE(neg, i1, i2, i3,
               IF At(i3, {"e", "E"}) /\ At(i3 + 1, {"-", "+"}) THEN i3 + 2 ELSE i3 + 1)
      AfterDigits(neg, i1, i2) ==
        AfterFraction(neg, i1, i2, IF At(i2, {"."}) THEN SkipDigits(s, i2 + 1) ELSE i2)
      AfterSpace(i0) ==
        LET i1 == IF At(i0, {"-", "+"}) THEN i0 + 1 ELSE i0
        IN  AfterDigits(At(i0, {"-"}), i1, SkipDigits(s, i1))
  IN  AfterSpace(SkipSpace(s, 1))

(* parseFloat(v) = parseFloat(ToStr(v)) *)
parseFloat(v) == ParseFloatString(ToStr(v))

(* row[i] for i = 0, 1: an element of an array, a character of a string,   *)
(* undefined on a number, a boolean or an object without that key; reading *)
(* a property of null throws a TypeError                                   *)
Index(row, i) ==
  CASE row.t = "array"  -> IF i + 1 <= Len(row.a) THEN row.a[i + 1] ELSE Undefined
    [] row.t = "string" -> IF i + 1 <= Len(row.s) THEN JStr(<<row.s[i + 1]>>) ELSE Undefined
    [] OTHER -> Undefined

-----------------------------------------------------------------------------
(* The request and the response.  A request has a method, an Origin header *)
(* (or none) and a body: text that is not JSON, or a JSON value.  A JSON   *)
(* object carries rows and transformKey, Undefined when the key is absent. *)
(* A string kept whole (a property key, a message) is a TLA+ string.       *)

JName(s) == [t |-> "name", s |-> s]
InvalidJSON == [t |-> "invalid"]
BodyObject(rows, transformKey) ==
  [t |-> "object", rows |-> rows, transformKey |-> transformKey]

(* !v *)
Falsy(v) ==
  CASE v.t \in {"undefined", "null"} -> TRUE
    [] v.t = "boolean" -> ~v.b
    [] v.t = "number"  -> IsNaN(v.v) \/ Sign(v.v) = 0
    [] v.t = "string"  -> v.s = <<>>
    [] v.t = "name"    -> v.s = ""
    [] OTHER -> FALSE

(* body.rows, body.transformKey *)
Prop(body, key) ==
  IF body.t = "object" /\ key \in DOMAIN body THEN body[key] ELSE Undefined

NoBody == [tag |-> "none", error |-> "", mainResult |-> JNull]
ErrorBody(msg) == [tag |-> "error", error |-> msg, mainResult |-> JNull]

(* JSON.stringify of the value of mainResult: a finite number as it is,    *)
(* NaN and the infinities as null, a Number object as its number           *)
Stringify(value) ==
  CASE value.t \in {"number", "Number"} ->
         IF IsFin(value.v) THEN JNum(value.v) ELSE JNull
    [] OTHER -> value
ResultBody(value) == [tag |-> "mainResult", error |-> "", mainResult |-> Stringify(value)]

Response(status, headers, body) ==
  [outcome |-> "response", status |-> status, headers |-> headers, body |-> body]
(* the handler ends with an exception that nothing catches *)
Uncaught(name) ==
  [outcome |-> "threw", status |-> 0, headers |-> << >>, body |-> ErrorBody(name)]

(* what a run of a handler did: its response, whether it called fit and    *)
(* with what, what fit returned, and the function it applied to R^2        *)
Run(resp, fitCalled, x, y, r2, applied) ==
  [resp |-> resp, fitCalled |-> fitCalled, x |-> x, y |-> y, r2 |-> r2,
   applied |-> applied]
NoFit(resp) == Run(resp, FALSE, <<>>, <<>>, Null, "")

(* Number(mainResult.toFixed(6)): the nearest multiple of 10^-6, a tie away *)
(* from zero; unchanged from 10^21 on.  A value from 2147 on keeps its      *)
(* digits: its sixth decimal is beyond a 32-bit numerator.                  *)
ToFixed6(v) ==
  IF GreaterEq(Abs(v), Num(2147)) THEN v
  ELSE LET k  == FloorScaled(v, 6)
           up == GreaterEq(Abs(v), Fin(2 * k + 1, 2000000))
           r  == IF up THEN k + 1 ELSE k
       IN  Fin(IF Sign(v) < 0 THEN -r ELSE r, 1000000)

(* typeof mainResult === 'number' && isFinite(mainResult)                  *)
(*   ? Number(mainResult.toFixed(6)) : mainResult                          *)
Rounded(mainResult) ==
  IF mainResult.t = "number" /\ IsFin(mainResult.v)
  THEN JNum(ToFixed6(mainResult.v)) ELSE mainResult

(* The loop over rows: the x and y of the rows kept so far, or threw when  *)
(* reading row[0] threw.                                                   *)
RECURSIVE RowLoop(_, _)
RowLoop(rows, m) ==
  IF m = 0 THEN [threw |-> FALSE, x |-> <<>>, y |-> <<>>]
  ELSE LET row == rows[m]
           Push(before, xi, yi) ==
             IF ~IsNaN(xi) /\ ~IsNaN(yi) /\ Greater(xi, Zero)
             THEN [before EXCEPT !.x = Append(@, xi), !.y = Append(@, yi)]
             ELSE before
           Body(before) ==
             IF before.threw \/ row.t \in {"null", "undefined"} THEN [before EXCEPT !.threw = TRUE]
             ELSE Push(before, parseFloat(Index(row, 0)), parseFloat(Index(row, 1)))
       IN  Body(RowLoop(rows, m - 1))

(* The properties TRANSFORMS inherits from Object.prototype. *)
ObjectPrototypeFunctions ==
  { "constructor", "toString", "toLocaleString", "valueOf", "hasOwnProperty",
    "isPrototypeOf", "propertyIsEnumerable", "__defineGetter__",
    "__defineSetter__", "__lookupGetter__", "__lookupSetter__" }

(* TRANSFORMS[transformKey]: an own entry, an inherited function, the       *)
(* prototype object itself for __proto__, or undefined                      *)
Lookup(transformKey) ==
  LET key == IF transformKey.t = "name" THEN transformKey.s ELSE ""
  IN  CASE key \in TransformNames -> [typeof |-> "function", own |-> TRUE, key |-> key]
        [] key \in ObjectPrototypeFunctions ->
             [typeof |-> "function", own |-> FALSE, key |-> key]
        [] key = "__proto__" -> [typeof |-> "object", own |-> FALSE, key |-> key]
        [] OTHER -> [typeof |-> "undefined", own |-> FALSE, key |-> key]

(* forward(r2), called with this undefined: an entry of the table returns   *)
(* a number; Object returns a Number object; Object.prototype.toString      *)
(* returns "[object Undefined]"; isPrototypeOf returns false for a          *)
(* primitive; the other inherited functions throw a TypeError on ToObject   *)
(* of undefined                                                             *)
Call(forward, r2) ==
  CASE forward.own -> [threw |-> FALSE, value |-> JNum(TRANSFORMS(forward.key, r2))]
    [] forward.key = "constructor" -> [threw |-> FALSE, value |-> [t |-> "Number", v |-> r2]]
    [] forward.key = "toString" -> [threw |-> FALSE, value |-> JName("[object Undefined]")]
    [] forward.key = "isPrototypeOf" -> [threw |-> FALSE, value |-> [t |-> "boolean", b |-> FALSE]]
    [] OTHER -> [threw |-> TRUE, value |-> Undefined]

-----------------------------------------------------------------------------
(* onRequestPost of result.js *)

(* a faulty variant that never echoes the Origin *)
corsHeaders_wildcard(origin) ==
  ("Access-Control-Allow-Origin" :> "*")
  @@ ("Access-Control-Allow-Methods" :> "POST, OPTIONS")
  @@ ("Access-Control-Allow-Headers" :> "Content-Type")

corsHeaders(origin) ==
  ("Access-Control-Allow-Origin" :> (IF origin = "" THEN "*" ELSE origin))
  @@ ("Access-Control-Allow-Methods" :> "POST, OPTIONS")
  @@ ("Access-Control-Allow-Headers" :> "Content-Type")

(* { 'Content-Type': 'application/json', ...corsHeaders } *)
JsonHeaders(cors) == cors @@ ("Content-Type" :> "application/json")

(* new Response(JSON.stringify({ error: msg }), { status, headers }) *)
Failure(cors, status, msg) == Response(status, JsonHeaders(cors), ErrorBody(msg))

(* new Response(JSON.stringify({ mainResult: value }), { status: 200, .. }) *)
Success(cors, value) == Response(200, JsonHeaders(cors), ResultBody(value))

(* from  let mainResult  on, called being the outcome of forward(r2) *)
AfterCall(cors, forward, x, y, r2, called) ==
  IF called.threw
  THEN Run(Failure(cors, 422, "Transform failed"), TRUE, x, y, r2, forward.key)
  ELSE Run(Success(cors, Rounded(called.value)), TRUE, x, y, r2, forward.key)

(* from  if (r2 === null)  on, r2 being what fit(x, y) returned *)
AfterFit(cors, forward, x, y, r2) ==
  IF r2 = Null THEN Run(Failure(cors, 422, "Fit failed"), TRUE, x, y, r2, "")
  ELSE AfterCall(cors, forward, x, y, r2, Call(forward, r2))

(* from  if (typeof forward !== 'function')  on *)
AfterLookup(cors, forward, x, y) ==
  IF forward.typeof # "function" THEN NoFit(Failure(cors, 400, "Unknown transform"))
  ELSE AfterFit(cors, forward, x, y, fit(x, y))

(* from the end of the loop over rows on, pts being what the loop left *)
AfterLoop(cors, transformKey, pts) ==
  IF pts.threw THEN NoFit(Uncaught("TypeError"))
  ELSE IF Len(pts.x) < 2 THEN NoFit(Failure(cors, 400, "Need at least 2 valid points"))
  ELSE AfterLookup(cors, Lookup(transformKey), pts.x, pts.y)

onRequestPost(request) ==
  LET origin == IF request.hasOrigin THEN request.origin ELSE ""
      cors   == corsHeaders(origin)
      body   == IF Falsy(request.body) THEN BodyObject(Undefined, Undefined)
                ELSE request.body
      rows   == Prop(body, "rows")
      transformKey == Prop(body, "transformKey")
  IN  IF request.method = "OPTIONS" THEN NoFit(Response(204, cors, NoBody))
      ELSE IF request.body.t = "invalid" THEN NoFit(Failure(cors, 400, "Invalid JSON"))
      ELSE IF rows.t # "array" \/ Falsy(transformKey)
      THEN NoFit(Failure(cors, 400, "Missing rows or transformKey"))
      ELSE AfterLoop(cors, transformKey, RowLoop(rows.a, Len(rows.a)))

-----------------------------------------------------------------------------
(* The endpoint with the fixed transform (src/unnamed/part_000): its own    *)
(* copy of fit, its transform, and its handler.  Its messages are Latvian,  *)
(* written here without diacritics.                                         *)

fit_fixed(x, y) ==
  LET n     == Len(x)
      u     == [i \in 1..n |-> Div(One, Mul(x[i], x[i]))]
      sumU  == SumTo(u, n)
      sumU2 == SumTo([i \in 1..n |-> Mul(u[i], u[i])], n)
      sumY  == SumTo(y, n)
      sumUY == SumTo([i \in 1..n |-> Mul(u[i], y[i])], n)
      det   == Sub(Mul(Num(n), sumU2), Mul(sumU, sumU))
      a     == Div(Sub(Mul(sumY, sumU2), Mul(sumU, sumUY)), det)
      b     == Div(Sub(Mul(Num(n), sumUY), Mul(sumU, sumY)), det)
      yPred == [i \in 1..n |-> Add(Div(b, Mul(x[i], x[i])), a)]
      yMean == Div(sumY, Num(n))
      ssRes == SumTo([i \in 1..n |-> LET r == Sub(y[i], yPred[i]) IN Mul(r, r)], n)
      ssTot == SumTo([i \in 1..n |-> LET r == Sub(y[i], yMean) IN Mul(r, r)], n)
  IN  IF Less(Abs(det), E10(-20)) THEN Null
      ELSE IF Greater(ssTot, Zero) THEN Sub(One, Div(ssRes, ssTot)) ELSE Zero

corsHeaders_fixed(origin) ==
  ("Access-Control-Allow-Origin" :> (IF origin = "" THEN "*" ELSE origin))
  @@ ("Access-Control-Allow-Methods" :> "POST, OPTIONS")
  @@ ("Access-Control-Allow-Headers" :> "Content-Type")

(* from  if (r2 === null)  on; transform(r2) does not throw *)
AfterFit_fixed(cors, x, y, r2) ==
  IF r2 = Null THEN Run(Failure(cors, 422, "Pielagosana neizdevas"), TRUE, x, y, r2, "")
  ELSE Run(Success(cors, Rounded(JNum(transform(r2)))), TRUE, x, y, r2, "transform")

(* from the end of the loop over rows on *)
AfterLoop_fixed(cors, pts) ==
  IF pts.threw THEN NoFit(Uncaught("TypeError"))
  ELSE IF Len(pts.x) < 2
  THEN NoFit(Failure(cors, 400, "Vajag vismaz 2 derigus punktus"))
  ELSE AfterFit_fixed(cors, pts.x, pts.y, fit_fixed(pts.x, pts.y))

onRequestPost_fixed(request) ==
  LET origin == IF request.hasOrigin THEN request.origin ELSE ""
      cors   == corsHeaders_fixed(origin)
      body   == IF Falsy(request.body) THEN BodyObject(Undefined, Undefined)
                ELSE request.body
      rows   == Prop(body, "rows")
  IN  IF request.method = "OPTIONS" THEN NoFit(Response(204, cors, NoBody))
      ELSE IF request.body.t = "invalid"
      THEN NoFit(Failure(cors, 400, "Nederiga JSON struktura"))
      ELSE IF rows.t # "array" THEN NoFit(Failure(cors, 400, "Trukst datu rindu"))
      ELSE AfterLoop_fixed(cors, RowLoop(rows.a, Len(rows.a)))

-----------------------------------------------------------------------------
(* The requests of the model.  Rows are drawn from a sample of JSON values: *)
(* pairs the loop keeps, and values it skips, misreads or cannot read.      *)

MaxRows == 3

Pair(a, b) == JArr(<<a, b>>)

RowSamples ==
  { Pair(JNum(Num(1)), JNum(Num(0))),
    Pair(JNum(Num(1)), JNum(Num(1))),
    Pair(JNum(Num(2)), JNum(Num(3))),
    Pair(JNum(Num(3)), JNum(Num(1))),
    JNull,
    JStr(<<"1", "2">>),
    Pair(JStr(<<"a", "b", "c">>), JNum(Num(5))),
    Pair(JNum(Num(-1)), JNum(Num(5))),
    Pair(JStr(<<"I", "n", "f", "i", "n", "i", "t", "y">>), JNum(Num(1))),
    Pair(JNum(Num(2)), JStr(<<"-", "1", "e", "9", "9", "9">>)) }

RowSeqs == UNION { [1..m -> RowSamples] : m \in 0..MaxRows }

(* rows for the requests that vary the key *)
KeyRows ==
  { <<>>,
    <<Pair(JNum(Num(1)), JNum(Num(1)))>>,
    <<Pair(JNum(Num(1)), JNum(Num(1))), Pair(JNum(Num(1)), JNum(Num(2)))>>,
    <<Pair(JNum(Num(1)), JNum(Num(1))), Pair(JNum(Num(2)), JNum(Num(1)))>>,
    <<Pair(JNum(Num(1)), JNum(Num(1))), Pair(JNum(Num(2)), JNum(Num(3)))>>,
    <<Pair(JNum(Num(1)), JNum(Num(0))), Pair(JNum(Num(1)), JNum(Num(1))),
      Pair(JNum(Num(2)), JNum(Num(3)))>>,
    <<Pair(JNum(Num(1)), JNum(Num(3))), Pair(JNum(Num(2)), JNum(Num(1))),
      Pair(JNum(Num(3)), JNum(Num(1)))>> }

StarLog == "-log(1-R^2) *"

KeySamples ==
  { JName(k) : k \in TransformNames \cup ObjectPrototypeFunctions
                       \cup {"__proto__", "bogus", "R^2", ""} }
  \cup { Undefined, JNull, JNum(Num(7)) }

Origins ==
  { [hasOrigin |-> FALSE, origin |-> ""],
    [hasOrigin |-> TRUE, origin |-> ""],
    [hasOrigin |-> TRUE, origin |-> "https://fizmix.example"] }

Post(o, body) ==
  [method |-> "POST", hasOrigin |-> o.hasOrigin, origin |-> o.origin, body |-> body]

OtherBodies ==
  { InvalidJSON, JNull, JNum(Zero), JNum(Num(3)), JArr(<<>>),
    BodyObject(Undefined, JName(StarLog)),
    BodyObject(JNum(Num(3)), JName(StarLog)),
    BodyObject(JStr(<<"1", "2">>), JName(StarLog)) }

Requests ==
  { Post(o, BodyObject(JArr(rows), JName(StarLog))) :
      o \in {[hasOrigin |-> TRUE, origin |-> "https://fizmix.example"]},
      rows \in RowSeqs }
  \cup { Post(o, BodyObject(JArr(rows), key)) :
           o \in {[hasOrigin |-> FALSE, origin |-> ""]},
           rows \in KeyRows, key \in KeySamples }
  \cup { Post(o, b) : o \in Origins, b \in OtherBodies }
  \cup { [method |-> "OPTIONS", hasOrigin |-> o.hasOrigin, origin |-> o.origin,
          body |-> b] : o \in Origins, b \in {InvalidJSON, JNull} }

-----------------------------------------------------------------------------
(* The state machine: a request arrives and is posted to the endpoint of   *)
(* result.js and then to the endpoint with the fixed transform; each        *)
(* handler runs once on it.  The handlers share no state.                   *)

VARIABLES pc, request, runSel, runFix, input, output

vars == <<pc, request, runSel, runFix, input, output>>

None == [resp |-> [outcome |-> "none"]]
NoRequest == [method |-> "none"]
Idle == [op |-> "none"]

Init ==
  /\ pc = "idle"
  /\ request = NoRequest
  /\ runSel = None
  /\ runFix = None
  /\ input = Idle
  /\ output = Idle

Receive(req) ==
  /\ pc = "idle"
  /\ pc' = "received"
  /\ request' = req
  /\ UNCHANGED <<runSel, runFix, input, output>>

(* POST or OPTIONS to the endpoint of result.js *)
HandleSelectable ==
  /\ pc = "received"
  /\ pc' = "selectable"
  /\ runSel' = onRequestPost(request)
  /\ UNCHANGED <<request, runFix, input, output>>

(* POST or OPTIONS to the endpoint with the fixed transform *)
HandleFixed ==
  /\ pc = "selectable"
  /\ pc' = "fixed"
  /\ runFix' = onRequestPost_fixed(request)
  /\ UNCHANGED <<request, runSel, input, output>>

Done ==
  /\ pc = "fixed"
  /\ pc' = "idle"
  /\ request' = NoRequest
  /\ runSel' = None
  /\ runFix' = None
  /\ UNCHANGED <<input, output>>

Next ==
  \/ \E req \in Requests : Receive(req)
  \/ HandleSelectable
  \/ HandleFixed
  \/ Done

Spec == Init /\ [][Next]_vars

-----------------------------------------------------------------------------
(* fit on exact data: a0, b0 and pairwise distinct positive x are drawn,   *)
(* y[i] = b0/x[i]^2 + a0, and both copies of fit are applied.              *)

MaxX == 3

Injective(f) == \A i, j \in DOMAIN f : f[i] = f[j] => i = j

SmallXs ==
  { [i \in DOMAIN f |-> Num(f[i])] :
      f \in { g \in UNION { [1..m -> 1..MaxX] : m \in 2..MaxX } : Injective(g) } }

(* 100000 and 200000 *)
LargeXs ==
  { <<MkFin(1, 1, 5), MkFin(2, 1, 5)>>, <<MkFin(2, 1, 5), MkFin(1, 1, 5)>> }

Coefficients == { Num(-3), Zero, Fin(1, 2), Num(4) }

Exact(a0, b0, x) == [i \in DOMAIN x |-> Add(Div(b0, Mul(x[i], x[i])), a0)]

InitFit ==
  /\ pc = "idle"
  /\ request = NoRequest
  /\ runSel = None
  /\ runFix = None
  /\ output = Idle
  /\ \E a0 \in Coefficients, b0 \in Coefficients, x \in SmallXs \cup LargeXs :
       /\ x \in LargeXs => a0 = Zero
       /\ input = [op |-> "fit", a0 |-> a0, b0 |-> b0, x |-> x, y |-> Exact(a0, b0, x)]

ApplyFit ==
  /\ input.op = "fit"
  /\ output = Idle
  /\ output' = [op |-> "fit", r2 |-> fit(input.x, input.y),
                r2_fixed |-> fit_fixed(input.x, input.y)]
  /\ UNCHANGED <<pc, request, runSel, runFix, input>>

NextFit == ApplyFit

SpecFit == InitFit /\ [][NextFit]_vars

-----------------------------------------------------------------------------
(* fit in binary64, statement by statement: output holds the locals of fit *)
(* and the statement it is at.                                              *)

MaxPoints == 3

XValues == {1, 5}
YValues == {1, 2, 4}

DArray(f) == [i \in DOMAIN f |-> DNum(f[i])]

InitFit64 ==
  /\ pc = "idle"
  /\ request = NoRequest
  /\ runSel = None
  /\ runFix = None
  /\ output = [at |-> "start"]
  /\ \E m \in 2..MaxPoints : \E xs \in [1..m -> XValues], ys \in [1..m -> YValues] :
       input = [op |-> "fit64", x |-> DArray(xs), y |-> DArray(ys)]

At(position) == input.op = "fit64" /\ output.at = position

(* const u = x.map((xi) => 1 / (xi * xi)) *)
FitMap ==
  /\ At("start")
  /\ output' = [at |-> "sums", n |-> Len(input.x),
                u |-> [i \in DOMAIN input.x |->
                         DDiv(DNum(1), DMul(input.x[i], input.x[i]))]]
  /\ UNCHANGED <<pc, request, runSel, runFix, input>>

(* the loop of the four sums *)
FitSums ==
  /\ At("sums")
  /\ LET n == output.n
         u == output.u
         y == input.y
     IN  output' = [at |-> "det", n |-> n,
                    sumU  |-> DSumTo(u, n),
                    sumU2 |-> DSumTo([i \in 1..n |-> DMul(u[i], u[i])], n),
                    sumY  |-> DSumTo(y, n),
                    sumUY |-> DSumTo([i \in 1..n |-> DMul(u[i], y[i])], n)]
  /\ UNCHANGED <<pc, request, runSel, runFix, input>>

(* const det = n * sumU2 - sumU * sumU; if (Math.abs(det) < 1e-20) return null *)
FitDet ==
  /\ At("det")
  /\ LET det == DSub(DMul(DNum(output.n), output.sumU2), DMul(output.sumU, output.sumU))
     IN  output' = IF DLess([det EXCEPT !.s = 1], D1em20)
                   THEN [at |-> "returned", r2 |-> Null, det |-> det]
                   ELSE [output EXCEPT !.at = "coefficients"] @@ [det |-> det]
  /\ UNCHANGED <<pc, request, runSel, runFix, input>>

(* const a = ..; const b = .. *)
FitCoefficients ==
  /\ At("coefficients")
  /\ LET o == output
     IN  output' = [at |-> "predict", n |-> o.n, sumY |-> o.sumY, det |-> o.det,
                    a |-> DDiv(DSub(DMul(o.sumY, o.sumU2), DMul(o.sumU, o.sumUY)), o.det),
                    b |-> DDiv(DSub(DMul(DNum(o.n), o.sumUY), DMul(o.sumU, o.sumY)), o.det)]
  /\ UNCHANGED <<pc, request, runSel, runFix, input>>

(* const yPred = x.map((xi) => b / (xi * xi) + a); const yMean = sumY / n *)
FitPredict ==
  /\ At("predict")
  /\ LET o == output
         x == input.x
     IN  output' = [at |-> "residuals", n |-> o.n, det |-> o.det,
                    yPred |-> [i \in 1..o.n |-> DAdd(DDiv(o.b, DMul(x[i], x[i])), o.a)],
                    yMean |-> DDiv(o.sumY, DNum(o.n))]
  /\ UNCHANGED <<pc, request, runSel, runFix, input>>

(* the loop of ssRes and ssTot; (..) ** 2 is taken as the product *)
FitResiduals ==
  /\ At("residuals")
  /\ LET o == output
         y == input.y
     IN  output' = [at |-> "r2", det |-> o.det,
                    ssRes |-> DSumTo([i \in 1..o.n |->
                                LET r == DSub(y[i], o.yPred[i]) IN DMul(r, r)], o.n),
                    ssTot |-> DSumTo([i \in 1..o.n |->
                                LET r == DSub(y[i], o.yMean) IN DMul(r, r)], o.n)]
  /\ UNCHANGED <<pc, request, runSel, runFix, input>>

(* const r2 = ssTot > 0 ? 1 - ssRes / ssTot : 0; return r2 *)
FitReturn ==
  /\ At("r2")
  /\ output' = [at |-> "returned", det |-> output.det,
                r2 |-> IF DLess(DZero(1), output.ssTot)
                       THEN DSub(DNum(1), DDiv(output.ssRes, output.ssTot))
                       ELSE DZero(1)]
  /\ UNCHANGED <<pc, request, runSel, runFix, input>>

NextFit64 ==
  \/ FitMap
  \/ FitSums
  \/ FitDet
  \/ FitCoefficients
  \/ FitPredict
  \/ FitResiduals
  \/ FitReturn

SpecFit64 == InitFit64 /\ [][NextFit64]_vars

-----------------------------------------------------------------------------
(* The table on pairs of R^2 values: a key and lo < hi are drawn from a    *)
(* grid that has points below, at and above the thresholds, and the entry   *)
(* is applied to both.                                                      *)

Grid ==
  { Zero, Fin(1, 4), Fin(1, 2), Fin(9, 10), Fin(998, 1000), Fin(9985, 10000),
    C999, Fin(9995, 10000), C9999, One, Fin(3, 2) }

InitTransforms ==
  /\ pc = "idle"
  /\ request = NoRequest
  /\ runSel = None
  /\ runFix = None
  /\ output = Idle
  /\ \E key \in TransformNames, lo \in Grid, hi \in Grid :
       /\ Less(lo, hi)
       /\ input = [op |-> "transform", key |-> key, lo |-> lo, hi |-> hi]

ApplyTransform ==
  /\ input.op = "transform"
  /\ output = Idle
  /\ output' = [op |-> "transform", lo |-> TRANSFORMS(input.key, input.lo),
                hi |-> TRANSFORMS(input.key, input.hi),
                fixed |-> transform(input.hi)]
  /\ UNCHANGED <<pc, request, runSel, runFix, input>>

NextTransforms == ApplyTransform

SpecTransforms == InitTransforms /\ [][NextTransforms]_vars

-----------------------------------------------------------------------------
(* Properties.                                                              *)

Finished == pc = "fixed"

RowsIsArray == Prop(request.body, "rows").t = "array"
KeyOf(req) == Prop(req.body, "transformKey")

Statuses == {204, 200, 400, 422}

ExpectedOrigin ==
  IF request.hasOrigin /\ request.origin # "" THEN request.origin ELSE "*"

HasCors(resp) ==
  /\ {"Access-Control-Allow-Origin", "Access-Control-Allow-Methods",
      "Access-Control-Allow-Headers"} \subseteq DOMAIN resp.headers
  /\ resp.headers["Access-Control-Allow-Origin"] = ExpectedOrigin
  /\ resp.headers["Access-Control-Allow-Methods"] = "POST, OPTIONS"
  /\ resp.headers["Access-Control-Allow-Headers"] = "Content-Type"

HasJsonType(resp) ==
  /\ "Content-Type" \in DOMAIN resp.headers
  /\ resp.headers["Content-Type"] = "application/json"

(* C1: in the endpoint of result.js, a request whose rows is an array and   *)
(* whose transformKey is a non-empty string outside the fifteen names of    *)
(* the table is answered 400, fit is not invoked and no function is         *)
(* applied to R^2.  (The text of the error is left aside: with fewer than   *)
(* two valid rows the 400 carries another message.)                         *)
C1_UnknownKeyRejected ==
  ( /\ pc \in {"selectable", "fixed"}
    /\ request.method = "POST"
    /\ RowsIsArray
    /\ KeyOf(request).t = "name"
    /\ KeyOf(request).s \notin TransformNames \cup {""} )
  => /\ runSel.resp.outcome = "response"
     /\ runSel.resp.status = 400
     /\ ~runSel.fitCalled
     /\ runSel.applied = ""

ErrorMessages ==
  { "Invalid JSON", "Missing rows or transformKey", "Need at least 2 valid points",
    "Unknown transform", "Fit failed", "Transform failed",
    "Nederiga JSON struktura", "Trukst datu rindu",
    "Vajag vismaz 2 derigus punktus", "Pielagosana neizdevas",
    "Transformacija neizdevas" }

OnlyError(resp) ==
  resp.status \in {400, 422} => resp.body.tag = "error" /\ resp.body.error \in ErrorMessages

(* C2: a 200 body holds only mainResult, the value of one of the fifteen    *)
(* entries of the table (the fixed transform in the fixed endpoint) at R^2  *)
(* rounded to 6 decimals, and an error body holds only a fixed message.     *)
C2_OnlyTransformedValue ==
  Finished =>
    /\ OnlyError(runSel.resp)
    /\ OnlyError(runFix.resp)
    /\ runSel.resp.status = 200 =>
         /\ runSel.resp.body.tag = "mainResult"
         /\ \E key \in TransformNames :
              runSel.resp.body.mainResult
                = Stringify(Rounded(JNum(TRANSFORMS(key, runSel.r2))))
    /\ runFix.resp.status = 200 =>
         /\ runFix.resp.body.tag = "mainResult"
         /\ runFix.resp.body.mainResult = Stringify(Rounded(JNum(transform(runFix.r2))))

(* C3: each handler completes by returning a Response whose status is 204,  *)
(* 200, 400 or 422, whatever the request; no run ends with an exception.    *)
C3_AlwaysAResponse ==
  Finished =>
    /\ runSel.resp.outcome = "response" /\ runSel.resp.status \in Statuses
    /\ runFix.resp.outcome = "response" /\ runFix.resp.status \in Statuses

(* C4 as stated: every response, the 204 included, carries Content-Type:    *)
(* application/json and the three CORS headers.                             *)
C4_AllHeadersEverywhere ==
  Finished =>
    /\ runSel.resp.outcome = "response" => HasCors(runSel.resp) /\ HasJsonType(runSel.resp)
    /\ runFix.resp.outcome = "response" => HasCors(runFix.resp) /\ HasJsonType(runFix.resp)

HeadersAmended(resp) ==
  resp.outcome = "response" =>
    /\ HasCors(resp)
    /\ resp.status # 204 => HasJsonType(resp)
    /\ resp.status = 204 => "Content-Type" \notin DOMAIN resp.headers

(* C4 amended: every response carries the three CORS headers, with the      *)
(* request's Origin or * when it is absent or empty; every response but the *)
(* 204 also carries Content-Type: application/json, and the 204 carries no  *)
(* Content-Type.                                                            *)
C4_CorsEverywhereJsonButOn204 ==
  Finished => HeadersAmended(runSel.resp) /\ HeadersAmended(runFix.resp)

C4_Witness ==
  /\ Finished
  /\ request.method = "OPTIONS"
  /\ request.hasOrigin /\ request.origin # ""
  /\ runSel.resp.status = 204
  /\ runFix.resp.status = 204

(* C5: for every entry of the table and every pair lo < hi of R^2 values,   *)
(* the entry's output at lo is at most its output at hi.                    *)
C5_Monotone ==
  output.op = "transform" => GreaterEq(output.hi, output.lo)

Determinant(x) ==
  LET n == Len(x)
      u == [i \in 1..n |-> Div(One, Mul(x[i], x[i]))]
  IN  Sub(Mul(Num(n), SumTo([i \in 1..n |-> Mul(u[i], u[i])], n)),
          Mul(SumTo(u, n), SumTo(u, n)))

ClampBinds ==
  /\ Finished
  /\ runFix.resp.outcome = "response"
  /\ runFix.resp.status = 200
  /\ GreaterEq(runFix.r2, C9999)

(* C7 as stated: in the fixed endpoint, when R^2 is at or above 0.9999 the  *)
(* returned mainResult is -ln(1e-10), 23.02585 to five decimals.            *)
C7_ClampGivesFloor ==
  ClampBinds =>
    /\ runFix.resp.body.mainResult.t = "number"
    /\ GreaterEq(runFix.resp.body.mainResult.v, Fin(2302584, 100000))
    /\ GreaterEq(Fin(2302586, 100000), runFix.resp.body.mainResult.v)

(* C7 amended: in the fixed endpoint, when R^2 is at or above 0.9999 the    *)
(* logarithm is taken of 1 - 0.9999 = 1e-4, above the 1e-10 floor, and the  *)
(* returned mainResult is -ln(1e-4) = 9.21034.                              *)
C7_ClampGivesTenThousandth ==
  ClampBinds =>
    /\ NumEq(MathMax(E10(-10), Sub(One, MathMax(Zero, MathMin(C9999, runFix.r2)))),
             E10(-4))
    /\ runFix.resp.body.mainResult = JNum(Fin(921034, 100000))

C7_Witness == ClampBinds /\ runFix.r2 = One

AllEqual(x) == \A i, j \in DOMAIN x : x[i] = x[j]

(* C8: for n >= 2 positive x values that are all identical, and every y,   *)
(* fit returns the degenerate signal null (and so the endpoints answer     *)
(* 422).                                                                    *)
C8_IdenticalXIsDegenerate ==
  At("returned") /\ AllEqual(input.x) => output.r2 = Null

(* C9: on a request with an array of rows, the fixed endpoint ends as the   *)
(* endpoint of result.js does with transformKey '-log(1-R^2) *': the same   *)
(* outcome, the same status and, on success, the same mainResult; and the   *)
(* two copies of fit return the same result whenever both are invoked.      *)
C9_EndpointsAgree ==
  Finished /\ RowsIsArray =>
    /\ runSel.fitCalled /\ runFix.fitCalled =>
         /\ runSel.x = runFix.x /\ runSel.y = runFix.y
         /\ runSel.r2 = runFix.r2
    /\ KeyOf(request) = JName(StarLog) =>
         /\ runSel.resp.outcome = runFix.resp.outcome
         /\ runSel.resp.status = runFix.resp.status
         /\ runSel.fitCalled = runFix.fitCalled
         /\ runSel.resp.status = 200 =>
              runSel.resp.body.mainResult = runFix.resp.body.mainResult

C9_Witness ==
  /\ Finished
  /\ KeyOf(request) = JName(StarLog)
  /\ runSel.resp.status = 200
  /\ runFix.resp.status = 200
  /\ runFix.r2 = Fin(25, 28)
  /\ runSel.resp.body.mainResult = runFix.resp.body.mainResult

Precondition(run) ==
  run.fitCalled =>
    /\ Len(run.x) = Len(run.y)
    /\ Len(run.x) >= 2
    /\ \A i \in DOMAIN run.x :
         IsFin(run.x[i]) /\ Greater(run.x[i], Zero) /\ IsFin(run.y[i])

(* C10: whenever a handler invokes fit, x and y have the same length, at    *)
(* least 2, every x is finite and above 0 and every y is finite.            *)
C10_FitPreconditions ==
  Finished => Precondition(runSel) /\ Precondition(runFix)

====
